---- MODULE Spec2Model ----
(***************************************************************************)
(* A model of cga_scraper.py: the date/time parser, the row extractor, the *)
(* session fetcher, the 14-day pipeline of main and the calendar           *)
(* serializer.  Text is modelled as sequences of one-character strings so  *)
(* that whitespace collapsing, the regular expression, int(), lower(),     *)
(* isdigit() and the formatting calls are computed, not assumed.           *)
(***************************************************************************)
EXTENDS Integers, Sequences, FiniteSets, TLC

VARIABLES
    \* ---- main() and the module-level session ----
    pc,             \* position of main: "loop", "fetch", "post", "parse", "sleep", "except", "done"
    start_date,     \* main: start_date (a calendar date record), None before it is read
    i,              \* main: loop index of `for i in range(days_to_pull)`
    all_events,     \* main: all_events
    html,           \* main: html of the current day (a document), None when absent
    asp_tokens,     \* session.asp_tokens, None while the attribute does not exist
    output_file,    \* content of OUTPUT_ICS on disk
    status,         \* the final console line: "none", "SUCCESS", "FAIL"
    final,          \* main: final (the list handed to build_ics), None when not built
    \* ---- observations of the run (history) ----
    attempted,      \* the dates passed to fetch_events_for_day, in call order
    extracted,      \* concatenation of the day_events of the days whose step succeeded
    getLog,         \* one record per landing-page GET: invocation number and outcome
    lastPost,       \* payload of the most recent POST, None before the first
    captures,       \* number of assignments to session.asp_tokens
    delays,         \* number of time.sleep(0.5) calls since the last call of fetch_events_for_day
    writes,         \* number of OUTPUT_ICS.write_text calls
    prev_file,      \* content of OUTPUT_ICS when the run started
    \* ---- parse_dt_line called on its own ----
    date_str, time_str, dt_result, dt_raised, dt_pc,
    \* ---- parse_events_from_html called on its own ----
    html_content, events, ev_pc

vars == <<pc, start_date, i, all_events, html, asp_tokens, output_file, status, final,
          attempted, extracted, getLog, lastPost, captures, delays, writes,
          prev_file, date_str, time_str, dt_result, dt_raised, dt_pc,
          html_content, events, ev_pc>>

mainVars == <<pc, start_date, i, all_events, html, asp_tokens, output_file, status, final,
              attempted, extracted, getLog, lastPost, captures, delays, writes,
              prev_file>>
dtVars == <<date_str, time_str, dt_result, dt_raised, dt_pc>>
evVars == <<html_content, events, ev_pc>>

\* Python's None / an absent value, and a present one
None == [none |-> TRUE]
Some(x) == [some |-> x]

(***************************************************************************)
(* Characters and strings                                                  *)
(***************************************************************************)
\* A text is a sequence of one-character strings.
DigitChars == <<"0", "1", "2", "3", "4", "5", "6", "7", "8", "9">>
DigitSet == {DigitChars[k] : k \in 1..Len(DigitChars)}
SpaceSet == {" ", "\t", "\n"}
IsSpace(c) == c \in SpaceSet

DigitVal(c) == (CHOOSE k \in 1..Len(DigitChars) : DigitChars[k] = c) - 1

\* int(text) for a text of decimal digits
RECURSIVE ToInt(_)
ToInt(s) == IF s = <<>> THEN 0
            ELSE ToInt(SubSeq(s, 1, Len(s) - 1)) * 10 + DigitVal(s[Len(s)])

UpperLetters == <<"A", "B", "C", "D", "E", "F", "G", "H", "I", "J", "K", "L", "M",
                  "N", "O", "P", "Q", "R", "S", "T", "U", "V", "W", "X", "Y", "Z">>
LowerLetters == <<"a", "b", "c", "d", "e", "f", "g", "h", "i", "j", "k", "l", "m",
                  "n", "o", "p", "q", "r", "s", "t", "u", "v", "w", "x", "y", "z">>
\* str.lower() and str.upper(), character by character
LowerChar(c) ==
    IF \E k \in 1..Len(UpperLetters) : UpperLetters[k] = c
    THEN LowerLetters[CHOOSE k \in 1..Len(UpperLetters) : UpperLetters[k] = c] ELSE c
UpperChar(c) ==
    IF \E k \in 1..Len(LowerLetters) : LowerLetters[k] = c
    THEN UpperLetters[CHOOSE k \in 1..Len(LowerLetters) : LowerLetters[k] = c] ELSE c
Lower(s) == [k \in 1..Len(s) |-> LowerChar(s[k])]
Upper(s) == [k \in 1..Len(s) |-> UpperChar(s[k])]

\* str.isdigit(): non-empty and every character a digit
IsDigitStr(s) == s # <<>> /\ \A k \in 1..Len(s) : s[k] \in DigitSet

\* str.strip()
RECURSIVE LStrip(_)
LStrip(s) == IF s = <<>> THEN s
             ELSE IF IsSpace(Head(s)) THEN LStrip(Tail(s)) ELSE s
RECURSIVE RStrip(_)
RStrip(s) == IF s = <<>> THEN s
             ELSE IF IsSpace(s[Len(s)]) THEN RStrip(SubSeq(s, 1, Len(s) - 1)) ELSE s
Strip(s) == RStrip(LStrip(s))

\* re.sub(r"\s+", " ", s): every maximal whitespace run becomes one space
RECURSIVE CollapseWs(_)
CollapseWs(s) ==
    IF s = <<>> THEN s
    ELSE IF IsSpace(Head(s)) THEN <<" ">> \o CollapseWs(LStrip(s))
    ELSE <<Head(s)>> \o CollapseWs(Tail(s))

normalize_ws(s) == CollapseWs(Strip(s))

(***************************************************************************)
(* The compiled pattern of parse_dt_line and a backtracking matcher        *)
(***************************************************************************)
NoMax == -1
Cls(set, lo, hi) == [kind |-> "cls", set |-> set, min |-> lo, max |-> hi]
Opt(n) == [kind |-> "opt", len |-> n]   \* (?: the next n elements )?

\* (mon)/(day)/(year)\s+(h):(m)(?::(s))?\s*(AM|PM), re.IGNORECASE
pattern == <<
    Cls(DigitSet, 1, 2), Cls({"/"}, 1, 1),
    Cls(DigitSet, 1, 2), Cls({"/"}, 1, 1),
    Cls(DigitSet, 4, 4), Cls(SpaceSet, 1, NoMax),
    Cls(DigitSet, 1, 2), Cls({":"}, 1, 1),
    Cls(DigitSet, 2, 2),
    Opt(2), Cls({":"}, 1, 1), Cls(DigitSet, 2, 2),
    Cls(SpaceSet, 0, NoMax),
    Cls({"A", "a", "P", "p"}, 1, 1), Cls({"M", "m"}, 1, 1) >>

\* the named groups, as the elements of the pattern each one spans
G_mon == <<1, 1>>
G_day == <<3, 3>>
G_year == <<5, 5>>
G_h == <<7, 7>>
G_m == <<9, 9>>
G_s == <<12, 12>>
G_ampm == <<14, 15>>

Fail == <<-1>>

\* length of the longest run of characters of `set` in s from position p, at most hi
RECURSIVE RunLen(_, _, _, _)
RunLen(s, p, set, hi) ==
    IF hi = 0 \/ p > Len(s) \/ s[p] \notin set THEN 0
    ELSE 1 + RunLen(s, p + 1, set, IF hi = NoMax THEN NoMax ELSE hi - 1)

\* MatchEl(s, p, k): match elements k.. of the pattern at position p of s, greedy
\* with backtracking; the result is the number of characters each element took
\* (0 for the marker of an optional group and for the elements of a skipped one).
RECURSIVE MatchEl(_, _, _), TryCount(_, _, _, _)
MatchEl(s, p, k) ==
    IF k > Len(pattern) THEN <<>>
    ELSE IF pattern[k].kind = "opt"
    THEN LET taken == MatchEl(s, p, k + 1)
             n == pattern[k].len
             skipped == MatchEl(s, p, k + 1 + n)
         IN  IF taken # Fail THEN <<0>> \o taken
             ELSE IF skipped # Fail THEN <<0>> \o [j \in 1..n |-> 0] \o skipped
             ELSE Fail
    ELSE TryCount(s, p, k, RunLen(s, p, pattern[k].set, pattern[k].max))
TryCount(s, p, k, n) ==
    IF n < pattern[k].min THEN Fail
    ELSE LET rest == MatchEl(s, p + n, k + 1)
         IN  IF rest # Fail THEN <<n>> \o rest ELSE TryCount(s, p, k, n - 1)

RECURSIVE SumTo(_, _)
SumTo(lens, k) == IF k = 0 THEN 0 ELSE lens[k] + SumTo(lens, k - 1)

\* pattern.search(s): the match at the leftmost position that has one
RECURSIVE SearchFrom(_, _)
SearchFrom(s, p) ==
    IF p > Len(s) + 1 THEN None
    ELSE LET lens == MatchEl(s, p, 1)
         IN  IF lens # Fail THEN [start |-> p, lens |-> lens, text |-> s]
             ELSE SearchFrom(s, p + 1)
pattern_search(s) == SearchFrom(s, 1)

\* m.group(g): the text element g of the pattern matched
group(m, g) ==
    LET from == m.start + SumTo(m.lens, g[1] - 1)
        to == m.start + SumTo(m.lens, g[2]) - 1
    IN  SubSeq(m.text, from, to)

(***************************************************************************)
(* datetime                                                                *)
(***************************************************************************)
MINYEAR == 1
MAXYEAR == 9999
IsLeap(y) == (y % 4 = 0) /\ ((y % 100 # 0) \/ (y % 400 = 0))
DaysInMonth(y, mo) ==
    IF mo = 2 THEN (IF IsLeap(y) THEN 29 ELSE 28)
    ELSE IF mo \in {4, 6, 9, 11} THEN 30 ELSE 31

\* datetime(year, month, day, hour, minute) raises ValueError unless this holds
ValidDateTime(y, mo, d, h, mi) ==
    /\ y \in MINYEAR..MAXYEAR
    /\ mo \in 1..12
    /\ d \in 1..DaysInMonth(y, mo)
    /\ h \in 0..23
    /\ mi \in 0..59

datetime(y, mo, d, h, mi) ==
    [year |-> y, month |-> mo, day |-> d, hour |-> h, minute |-> mi, second |-> 0]

(***************************************************************************)
(* parse_dt_line                                                           *)
(***************************************************************************)
\* lines 50-52: the 12-hour to 24-hour conversion
ConvertHour(h, ampm) ==
    IF Upper(ampm) = <<"P", "M">> /\ h # 12 THEN h + 12
    ELSE IF Upper(ampm) = <<"A", "M">> /\ h = 12 THEN 0
    ELSE h

\* The outcome of the try body: [raised, value].  A ValueError of the datetime
\* constructor is an exception inside the try block.
parse_dt_body(ds, ts) ==
    LET clean_dt == normalize_ws(ds \o <<" ">> \o ts)
        m == pattern_search(clean_dt)
    IN  IF m = None THEN [raised |-> FALSE, value |-> None]
        ELSE LET h == ConvertHour(ToInt(group(m, G_h)), group(m, G_ampm))
                 y == ToInt(group(m, G_year))
                 mo == ToInt(group(m, G_mon))
                 d == ToInt(group(m, G_day))
                 mi == ToInt(group(m, G_m))
             IN  IF ValidDateTime(y, mo, d, h, mi)
                 THEN [raised |-> FALSE, value |-> datetime(y, mo, d, h, mi)]
                 ELSE [raised |-> TRUE, value |-> None]

\* parse_dt_line as it would be without the try block
parse_dt_line_no_except(ds, ts) == parse_dt_body(ds, ts)

\* try: ... except Exception: return None.  The result records whether an
\* exception leaves the function, and the value returned otherwise.
parse_dt_line(ds, ts) == [raised |-> FALSE, value |-> parse_dt_body(ds, ts).value]

(***************************************************************************)
(* Event and its uid                                                       *)
(***************************************************************************)
Event(dt, title, location) == [dt_start |-> dt, title |-> title, location |-> location]

DigitOf(n, unit) == DigitChars[((n \div unit) % 10) + 1]
DecDigits(n) == <<DigitOf(n, 1000), DigitOf(n, 100), DigitOf(n, 10), DigitOf(n, 1)>>
Pad4(n) == DecDigits(n)
Pad2(n) == SubSeq(DecDigits(n), 3, 4)

\* datetime.isoformat() of a value without microseconds: YYYY-MM-DDTHH:MM:SS
isoformat(dt) ==
    Pad4(dt.year) \o <<"-">> \o Pad2(dt.month) \o <<"-">> \o Pad2(dt.day) \o <<"T">>
    \o Pad2(dt.hour) \o <<":">> \o Pad2(dt.minute) \o <<":">> \o Pad2(dt.second)

\* hashlib.sha1(key).hexdigest(), kept symbolic: distinct keys have distinct digests
sha1_hexdigest(key) == <<"sha1(">> \o key \o <<")">>

\* the key as it would be without .lower()
uid_key_case_sensitive(e) == isoformat(e.dt_start) \o <<"|">> \o e.title

uid_key(e) == isoformat(e.dt_start) \o <<"|">> \o Lower(e.title)
uid(e) == <<"cga-">> \o sha1_hexdigest(uid_key(e)) \o <<"@cga.ct.gov">>

(***************************************************************************)
(* parse_events_from_html.  A document is the sequence of its <tr> rows,   *)
(* a row the sequence of the raw texts of its <td> cells.                  *)
(***************************************************************************)
get_text_strip(cell) == Strip(cell)

CGA_EVENT == <<"c", "g", "a", " ", "e", "v", "e", "n", "t">>
PLACEHOLDER == <<"U", "n", "k", "n", "o", "w", "n", " ", "C", "G", "A", " ",
                 "M", "e", "e", "t", "i", "n", "g">>
MIN_COLS == 4
SHORT_TITLE == 3

\* lines 83-87: the loop over cols[2:], k the index of the next cell (1-based)
RECURSIVE potential_titles_from(_, _)
potential_titles_from(cols, k) ==
    IF k > Len(cols) THEN <<>>
    ELSE LET text == normalize_ws(get_text_strip(cols[k]))
             rest == potential_titles_from(cols, k + 1)
         IN  IF text # <<>> /\ ~IsDigitStr(text) /\ Lower(text) # CGA_EVENT
             THEN <<text>> \o rest ELSE rest
potential_titles(cols) == potential_titles_from(cols, 3)

\* the selection as it would be without the short-title correction of lines 94-96
select_title_location_no_fix(pt) ==
    [title |-> IF pt # <<>> THEN pt[1] ELSE PLACEHOLDER,
     location |-> IF Len(pt) > 1 THEN pt[2] ELSE <<>>]

\* lines 89-96: title and location from the candidates
select_title_location(pt) ==
    LET title == IF pt # <<>> THEN pt[1] ELSE PLACEHOLDER
        location == IF Len(pt) > 1 THEN pt[2] ELSE <<>>
    IN  IF Len(title) < SHORT_TITLE /\ Len(pt) > 1
        THEN [title |-> pt[2], location |-> IF Len(pt) > 2 THEN pt[3] ELSE <<>>]
        ELSE [title |-> title, location |-> location]

\* lines 66-98: one iteration of the loop, the events it appends
row_events(cols) ==
    IF Len(cols) < MIN_COLS THEN <<>>
    ELSE LET date_raw == get_text_strip(cols[1])
             time_raw == get_text_strip(cols[2])
             dt == parse_dt_line(date_raw, time_raw).value
         IN  IF dt = None THEN <<>>
             ELSE LET sel == select_title_location(potential_titles(cols))
                  IN  <<Event(dt, sel.title, sel.location)>>

RECURSIVE parse_events_from_html(_)
parse_events_from_html(rows) ==
    IF rows = <<>> THEN <<>>
    ELSE row_events(Head(rows)) \o parse_events_from_html(Tail(rows))

(***************************************************************************)
(* fetch_events_for_day                                                    *)
(***************************************************************************)
TokenFields == {"__VIEWSTATE", "__VIEWSTATEGENERATOR", "__EVENTVALIDATION"}

\* lines 110-114: a landing page is the mapping from the names of its <input>
\* elements to their value attributes ("" when the attribute is missing)
capture_tokens(page) == [f \in TokenFields \cap DOMAIN page |-> page[f]]

\* date.strftime("%m/%d/%Y")
strftime_mdY(d) == Pad2(d.month) \o <<"/">> \o Pad2(d.day) \o <<"/">> \o Pad4(d.year)

\* post_data as it would be without the merge of line 120
post_data_no_tokens(target_date, tokens) ==
    LET date_s == strftime_mdY(target_date)
    IN  [sDate |-> date_s, eDate |-> date_s, btnSubmit |-> <<"Search">>, List |-> <<"1">>]

\* lines 116-121: the payload; the token mapping is merged last
post_data(target_date, tokens) ==
    LET date_s == strftime_mdY(target_date)
    IN  [f \in DOMAIN tokens |-> <<tokens[f]>>] @@
        [sDate |-> date_s, eDate |-> date_s, btnSubmit |-> <<"Search">>, List |-> <<"1">>]

(***************************************************************************)
(* dates of the window                                                     *)
(***************************************************************************)
days_to_pull == 14

NextDay(d) ==
    IF d.day < DaysInMonth(d.year, d.month) THEN [d EXCEPT !.day = d.day + 1]
    ELSE IF d.month < 12 THEN [d EXCEPT !.month = d.month + 1, !.day = 1]
    ELSE [year |-> d.year + 1, month |-> 1, day |-> 1]

\* start_date + timedelta(days=n)
RECURSIVE AddDays(_, _)
AddDays(d, n) == IF n = 0 THEN d ELSE NextDay(AddDays(d, n - 1))

(***************************************************************************)
(* deduplication and sorting (line 163)                                    *)
(***************************************************************************)
\* d[k] = v on a dict kept as the sequence of its items in insertion order
dict_set(d, k, v) ==
    IF \E j \in 1..Len(d) : d[j].key = k
    THEN [j \in 1..Len(d) |-> IF d[j].key = k THEN [key |-> k, value |-> v] ELSE d[j]]
    ELSE Append(d, [key |-> k, value |-> v])

\* {e.uid: e for e in evs}
RECURSIVE dict_by_uid(_)
dict_by_uid(evs) ==
    IF evs = <<>> THEN <<>>
    ELSE LET e == evs[Len(evs)]
         IN  dict_set(dict_by_uid(SubSeq(evs, 1, Len(evs) - 1)), uid(e), e)

dict_values(d) == [j \in 1..Len(d) |-> d[j].value]

\* a deduplication that drops one shadowed event per pass
dedup_one_pass(evs) ==
    LET shadowed == {j \in 1..Len(evs) : \E k \in (j + 1)..Len(evs) : uid(evs[k]) = uid(evs[j])}
        first == CHOOSE j \in shadowed : \A k \in shadowed : j <= k
    IN  IF shadowed = {} THEN evs
        ELSE SubSeq(evs, 1, first - 1) \o SubSeq(evs, first + 1, Len(evs))

dedup_by_uid(evs) == dict_values(dict_by_uid(evs))

\* datetime comparison a < b
dt_less(a, b) ==
    LET ka == <<a.year, a.month, a.day, a.hour, a.minute, a.second>>
        kb == <<b.year, b.month, b.day, b.hour, b.minute, b.second>>
    IN  \E j \in 1..6 : ka[j] < kb[j] /\ \A l \in 1..(j - 1) : ka[l] = kb[l]

\* sorted(xs, key=lambda x: x.dt_start): stable
RECURSIVE sort_insert(_, _)
sort_insert(sorted, e) ==
    IF sorted = <<>> THEN <<e>>
    ELSE IF dt_less(e.dt_start, sorted[Len(sorted)].dt_start)
    THEN Append(sort_insert(SubSeq(sorted, 1, Len(sorted) - 1), e), sorted[Len(sorted)])
    ELSE Append(sorted, e)
RECURSIVE sorted_by_start(_)
sorted_by_start(xs) ==
    IF xs = <<>> THEN <<>>
    ELSE sort_insert(sorted_by_start(SubSeq(xs, 1, Len(xs) - 1)), xs[Len(xs)])

\* line 163 as it would be without sorted()
final_list_unsorted(evs) == dedup_by_uid(evs)

final_list(evs) == sorted_by_start(dedup_by_uid(evs))

(***************************************************************************)
(* build_ics.  A line is a sequence of strings; the text is the sequence   *)
(* of the strings of all lines with the terminators between them.          *)
(***************************************************************************)
CRLF == "\r\n"
TZID == "America/New_York"

\* str.replace(',', r'\,')
RECURSIVE escape_commas(_)
escape_commas(s) ==
    IF s = <<>> THEN <<>>
    ELSE (IF Head(s) = "," THEN <<"\\", ",">> ELSE <<Head(s)>>) \o escape_commas(Tail(s))

\* dt.strftime('%Y%m%dT%H%M%S')
strftime_compact(dt) ==
    Pad4(dt.year) \o Pad2(dt.month) \o Pad2(dt.day) \o <<"T">>
    \o Pad2(dt.hour) \o Pad2(dt.minute) \o Pad2(dt.second)

event_lines(e, now) == <<
    <<"BEGIN:VEVENT">>,
    <<"UID:">> \o uid(e),
    <<"DTSTAMP:", now>>,
    <<"DTSTART;TZID=", TZID, ":">> \o strftime_compact(e.dt_start),
    <<"SUMMARY:">> \o escape_commas(e.title),
    <<"LOCATION:">> \o escape_commas(e.location),
    <<"END:VEVENT">> >>

RECURSIVE all_event_lines(_, _)
all_event_lines(evs, now) ==
    IF evs = <<>> THEN <<>>
    ELSE event_lines(Head(evs), now) \o all_event_lines(Tail(evs), now)

ics_lines(evs, now) ==
    << <<"BEGIN:VCALENDAR">>, <<"VERSION:2.0">>, <<"PRODID:-//CGA//EN">>, <<"METHOD:PUBLISH">> >>
    \o all_event_lines(evs, now) \o << <<"END:VCALENDAR">> >>

\* sep.join(lines)
RECURSIVE join(_, _)
join(sep, lines) ==
    IF lines = <<>> THEN <<>>
    ELSE IF Len(lines) = 1 THEN lines[1]
    ELSE lines[1] \o <<sep>> \o join(sep, Tail(lines))

build_ics(evs, now) == join(CRLF, ics_lines(evs, now)) \o <<CRLF>>

\* the parts of the state a specification does not use stay at these values
IdleMain ==
    /\ pc = "idle" /\ start_date = None /\ i = 0 /\ all_events = <<>> /\ html = None
    /\ asp_tokens = None /\ output_file = None /\ status = "none" /\ final = None
    /\ attempted = <<>> /\ extracted = <<>> /\ getLog = <<>> /\ lastPost = None
    /\ captures = 0 /\ delays = 0 /\ writes = 0 /\ prev_file = None
IdleDT ==
    /\ date_str = <<>> /\ time_str = <<>> /\ dt_result = None /\ dt_raised = FALSE
    /\ dt_pc = "idle"
IdleEV == html_content = <<>> /\ events = <<>> /\ ev_pc = "idle"

(***************************************************************************)
(* The environment of a run: what the server may answer, the clock.        *)
(***************************************************************************)
T_date1 == <<"1", "/", "5", "/", "2", "0", "2", "5">>
T_date1_padded == <<" ", "1", "/", "5", "/", "2", "0", "2", "5", " ">>
T_date0 == <<"1", "2", "/", "3", "1", "/", "2", "0", "2", "4">>
T_time10 == <<"1", "0", ":", "0", "0", " ", "A", "M">>
T_time930 == <<"9", ":", "3", "0", " ", "A", "M">>
T_time2359 == <<"1", "1", ":", "5", "9", " ", "P", "M">>
T_hdr_date == <<"D", "a", "t", "e">>
T_hdr_time == <<"T", "i", "m", "e">>
T_hdr_event == <<"E", "v", "e", "n", "t">>
T_hdr_room == <<"R", "o", "o", "m">>
T_num == <<"1", "0", "1">>
T_hb == <<"H", "B">>
T_filler == <<"C", "G", "A", " ", "E", "v", "e", "n", "t">>
T_budget == <<"B", "u", "d", "g", "e", "t">>
T_budget_upper == <<"B", "U", "D", "G", "E", "T">>
T_budget_lower == <<"b", "u", "d", "g", "e", "t">>
T_hearing == <<"H", "e", "a", "r", "i", "n", "g", ",", " ", " ", "A">>
T_room == <<"R", "m", " ", "2", "C">>
T_2c == <<"2", "C">>
T_empty == <<>>

Doc_empty == <<>>
Doc_header == << <<T_hdr_date, T_hdr_time, T_hdr_event, T_hdr_room>> >>
Doc_budget == << <<T_hdr_date, T_hdr_time, T_hdr_event, T_hdr_room>>,
                 <<T_date1, T_time10, T_num, T_budget, T_room>> >>
Doc_budget_upper == << <<T_date1, T_time10, T_num, T_budget_upper>> >>
Doc_two == << <<T_date1, T_time930, T_hb, T_hearing, T_room>>,
              <<T_date1_padded, T_time10, T_empty, T_filler, T_budget_lower, T_2c>> >>
Doc_early == << <<T_date0, T_time2359, T_hearing, T_num>> >>
DayDocs == {Doc_empty, Doc_header, Doc_budget, Doc_budget_upper, Doc_two, Doc_early}

\* a landing page with two of the three hidden fields (one without a value
\* attribute) and another input, and one with none of them
Page_some == ("__VIEWSTATE" :> "vs1") @@ ("__EVENTVALIDATION" :> "") @@ ("q" :> "x")
Page_none == ("q" :> "x")
LandingPages == {Page_some, Page_none}

\* the day a run starts on and the output file it finds
Runs == {[today |-> [year |-> 2024, month |-> 2, day |-> 20], file |-> None],
         [today |-> [year |-> 2026, month |-> 12, day |-> 25],
          file |-> Some(<<"BEGIN:VCALENDAR", CRLF, "END:VCALENDAR", CRLF>>)]}
NowPool == {"20261103T160000Z"}

\* what parse_events_from_html makes of each answer
DayDocEvents == [doc \in DayDocs |-> parse_events_from_html(doc)]

\* the server answers only while all_events stays within MaxEvents events, and
\* the landing page fails at most MaxGetFailures times
MaxEvents == 3
MaxGetFailures == 2

(***************************************************************************)
(* main                                                                    *)
(***************************************************************************)
current == AddDays(start_date, i)

\* lines 144-148, with the module-level session of line 22 freshly created
Init ==
    /\ IdleDT /\ IdleEV
    /\ \E run \in Runs : start_date = run.today /\ prev_file = run.file
    /\ pc = "loop" /\ i = 0 /\ all_events = <<>>
    /\ html = None /\ asp_tokens = None
    /\ output_file = prev_file
    /\ status = "none" /\ final = None
    /\ attempted = <<>> /\ extracted = <<>> /\ getLog = <<>> /\ lastPost = None
    /\ captures = 0 /\ delays = 0 /\ writes = 0

\* lines 150-153: the loop takes the next day and calls fetch_events_for_day
BeginDay ==
    /\ pc = "loop" /\ i < days_to_pull
    /\ attempted' = Append(attempted, current)
    /\ delays' = 0
    /\ pc' = "fetch"
    /\ UNCHANGED <<start_date, i, all_events, html, asp_tokens, output_file, status, final,
                   extracted, getLog, lastPost, captures, writes, prev_file>>
    /\ UNCHANGED dtVars /\ UNCHANGED evVars

\* line 107 as it would be if the attribute were looked up under another name
hasattr_never == FALSE

\* line 107
hasattr_asp_tokens == asp_tokens # None

\* lines 107-114, the GET answers: the mapping is captured
FetchGetOk ==
    /\ pc = "fetch" /\ ~hasattr_asp_tokens
    /\ \E page \in LandingPages : asp_tokens' = Some(capture_tokens(page))
    /\ getLog' = Append(getLog, [invocation |-> Len(attempted), ok |-> TRUE])
    /\ captures' = captures + 1
    /\ pc' = "post"
    /\ UNCHANGED <<start_date, i, all_events, html, output_file, status, final,
                   attempted, extracted, lastPost, delays, writes, prev_file>>
    /\ UNCHANGED dtVars /\ UNCHANGED evVars

\* line 108 raises (timeout, connection error): the exception reaches main
FetchGetRaise ==
    /\ pc = "fetch" /\ ~hasattr_asp_tokens
    /\ Len(getLog) < MaxGetFailures
    /\ getLog' = Append(getLog, [invocation |-> Len(attempted), ok |-> FALSE])
    /\ pc' = "except"
    /\ UNCHANGED <<start_date, i, all_events, html, asp_tokens, output_file, status, final,
                   attempted, extracted, lastPost, captures, delays, writes,
                   prev_file>>
    /\ UNCHANGED dtVars /\ UNCHANGED evVars

\* line 107 finds the attribute: no GET
FetchSkipGet ==
    /\ pc = "fetch" /\ hasattr_asp_tokens
    /\ pc' = "post"
    /\ UNCHANGED <<start_date, i, all_events, html, asp_tokens, output_file, status, final,
                   attempted, extracted, getLog, lastPost, captures, delays, writes,
                   prev_file>>
    /\ UNCHANGED dtVars /\ UNCHANGED evVars

\* lines 116-125, the POST answers with a document
FetchPostOk ==
    /\ pc = "post"
    /\ \E doc \in DayDocs :
          /\ Len(all_events) + Len(DayDocEvents[doc]) <= MaxEvents
          /\ html' = Some(doc)
    /\ lastPost' = Some(post_data(current, asp_tokens.some))
    /\ pc' = "parse"
    /\ UNCHANGED <<start_date, i, all_events, asp_tokens, output_file, status, final,
                   attempted, extracted, getLog, captures, delays, writes,
                   prev_file>>
    /\ UNCHANGED dtVars /\ UNCHANGED evVars

\* line 124 raises
FetchPostRaise ==
    /\ pc = "post"
    /\ lastPost' = Some(post_data(current, asp_tokens.some))
    /\ pc' = "except"
    /\ UNCHANGED <<start_date, i, all_events, html, asp_tokens, output_file, status, final,
                   attempted, extracted, getLog, captures, delays, writes,
                   prev_file>>
    /\ UNCHANGED dtVars /\ UNCHANGED evVars

\* lines 154-156
ParseOk ==
    /\ pc = "parse"
    /\ LET day_events == parse_events_from_html(html.some)
       IN  /\ all_events' = IF day_events # <<>> THEN all_events \o day_events ELSE all_events
           /\ extracted' = extracted \o day_events
    /\ html' = None
    /\ pc' = "sleep"
    /\ UNCHANGED <<start_date, i, asp_tokens, output_file, status, final, attempted,
                   getLog, lastPost, captures, delays, writes, prev_file>>
    /\ UNCHANGED dtVars /\ UNCHANGED evVars

\* line 154 raises (the HTML parser, or print on a console that cannot encode a title)
ParseRaise ==
    /\ pc = "parse"
    /\ html' = None
    /\ pc' = "except"
    /\ UNCHANGED <<start_date, i, all_events, asp_tokens, output_file, status, final,
                   attempted, extracted, getLog, lastPost, captures, delays,
                   writes, prev_file>>
    /\ UNCHANGED dtVars /\ UNCHANGED evVars

\* line 157, then the next iteration
Sleep ==
    /\ pc = "sleep"
    /\ delays' = delays + 1
    /\ i' = i + 1
    /\ pc' = "loop"
    /\ UNCHANGED <<start_date, all_events, html, asp_tokens, output_file, status, final,
                   attempted, extracted, getLog, lastPost, captures, writes,
                   prev_file>>
    /\ UNCHANGED dtVars /\ UNCHANGED evVars

\* Except as it would be without the try block: the exception ends the run
Except_abort ==
    /\ pc = "except"
    /\ pc' = "done"
    /\ UNCHANGED <<start_date, i, all_events, html, asp_tokens, output_file, status, final,
                   attempted, extracted, getLog, lastPost, captures, delays, writes,
                   prev_file>>
    /\ UNCHANGED dtVars /\ UNCHANGED evVars

\* lines 158-159, then the next iteration
Except ==
    /\ pc = "except"
    /\ i' = i + 1
    /\ pc' = "loop"
    /\ UNCHANGED <<start_date, all_events, html, asp_tokens, output_file, status, final,
                   attempted, extracted, getLog, lastPost, captures, delays, writes,
                   prev_file>>
    /\ UNCHANGED dtVars /\ UNCHANGED evVars

\* Finish as it would be without the test of line 161: it always writes
Finish_always_write ==
    /\ pc = "loop" /\ i >= days_to_pull
    /\ \E now \in NowPool :
          /\ final' = Some(final_list(all_events))
          /\ output_file' = Some(build_ics(final_list(all_events), now))
          /\ writes' = writes + 1
          /\ status' = "SUCCESS"
    /\ pc' = "done"
    /\ UNCHANGED <<start_date, i, all_events, html, asp_tokens, attempted, extracted,
                   getLog, lastPost, captures, delays, prev_file>>
    /\ UNCHANGED dtVars /\ UNCHANGED evVars

\* lines 161-167
Finish ==
    /\ pc = "loop" /\ i >= days_to_pull
    /\ IF all_events # <<>>
       THEN \E now \in NowPool :
              /\ final' = Some(final_list(all_events))
              /\ output_file' = Some(build_ics(final_list(all_events), now))
              /\ writes' = writes + 1
              /\ status' = "SUCCESS"
       ELSE /\ status' = "FAIL"
            /\ UNCHANGED <<final, output_file, writes>>
    /\ pc' = "done"
    /\ UNCHANGED <<start_date, i, all_events, html, asp_tokens, attempted, extracted,
                   getLog, lastPost, captures, delays, prev_file>>
    /\ UNCHANGED dtVars /\ UNCHANGED evVars

Next ==
    \/ BeginDay
    \/ FetchGetOk
    \/ FetchGetRaise
    \/ FetchSkipGet
    \/ FetchPostOk
    \/ FetchPostRaise
    \/ ParseOk
    \/ ParseRaise
    \/ Sleep
    \/ Except
    \/ Finish

Spec == Init /\ [][Next]_vars


(***************************************************************************)
(* Properties of a run                                                     *)
(***************************************************************************)
Range(f) == {f[k] : k \in DOMAIN f}

\* date.toordinal(): the day number in the proleptic Gregorian calendar
DaysBeforeMonth == <<0, 31, 59, 90, 120, 151, 181, 212, 243, 273, 304, 334>>
Ordinal(d) ==
    LET y == d.year - 1
    IN  365 * y + (y \div 4) - (y \div 100) + (y \div 400)
        + DaysBeforeMonth[d.month] + (IF d.month > 2 /\ IsLeap(d.year) THEN 1 ELSE 0)
        + d.day

\* C1, the state part: the days attempted so far are the first days of the
\* window, each once and in increasing date order; when the run is over all 14
\* were attempted; and the accumulated list is exactly the events of the days
\* whose step succeeded.
C1_Inv ==
    /\ Len(attempted) = (IF pc \in {"loop", "done"} THEN i ELSE i + 1)
    /\ Len(attempted) <= days_to_pull
    /\ \A k \in 1..Len(attempted) : Ordinal(attempted[k]) = Ordinal(start_date) + (k - 1)
    /\ pc = "done" => Len(attempted) = days_to_pull
    /\ all_events = extracted

\* the steps main still has to take: the days left, and the steps left in the day
PcRank ==
    CASE pc = "loop" -> 6 [] pc = "fetch" -> 5 [] pc = "post" -> 4 [] pc = "parse" -> 3
      [] pc = "sleep" -> 2 [] pc = "except" -> 2 [] pc = "done" -> 0
StepsLeft == 7 * (days_to_pull - i) + PcRank

\* the guards of the steps of main: some step is possible
CanStep ==
    \/ (pc = "loop" /\ i < days_to_pull)
    \/ (pc = "loop" /\ i >= days_to_pull)
    \/ (pc = "fetch" /\ ~hasattr_asp_tokens /\ LandingPages # {})
    \/ (pc = "fetch" /\ hasattr_asp_tokens)
    \/ (pc = "post" /\ \E doc \in DayDocs : Len(all_events) + Len(DayDocEvents[doc]) <= MaxEvents)
    \/ pc = "parse"
    \/ pc = "sleep"
    \/ pc = "except"

\* C1: whatever the per-day outcomes, every day of the window is attempted
\* exactly once in increasing date order, no exception on a day stops the later
\* days, the events of the days that succeeded stay in all_events, and the run
\* always reaches the final deduplicate/write-or-report step: before that step
\* is done a next step is always possible, and every step brings it closer.
C1_Theorem ==
    /\ [](C1_Inv /\ (pc = "done" \/ CanStep))
    /\ [][StepsLeft' < StepsLeft /\ StepsLeft' >= 0]_vars

\* a run in which the first day raised, a later day delivered events, and the
\* final step was reached after all 14 days
C1_Witness ==
    /\ pc = "done" /\ Len(attempted) = days_to_pull
    /\ getLog # <<>> /\ ~getLog[1].ok
    /\ all_events # <<>>

\* C2: the output file is written at most once, only by the final step after
\* all days were attempted and only when all_events is non-empty; with an empty
\* all_events the file is left as the run found it and failure is reported.
C2_Theorem ==
    /\ writes <= 1
    /\ pc # "done" => writes = 0 /\ output_file = prev_file /\ status = "none"
    /\ (pc = "done" /\ all_events = <<>>) =>
            writes = 0 /\ output_file = prev_file /\ status = "FAIL"
    /\ (pc = "done" /\ all_events # <<>>) =>
            writes = 1 /\ status = "SUCCESS" /\ Len(attempted) = days_to_pull
                /\ output_file # prev_file

\* a finished run with days that answered but no event at all, and an older
\* output file still in place
C2_Witness ==
    /\ pc = "done" /\ all_events = <<>>
    /\ asp_tokens # None /\ lastPost # None
    /\ prev_file # None /\ output_file = prev_file /\ status = "FAIL"

BaseFields == {"sDate", "eDate", "btnSubmit", "List"}

\* C3: session.asp_tokens is assigned at most once in a run, and every POST
\* carries exactly the captured mapping merged into its payload.
C3_Theorem ==
    /\ captures <= 1
    /\ (captures = 0) <=> (asp_tokens = None)
    /\ lastPost # None =>
         /\ asp_tokens # None
         /\ DOMAIN lastPost.some = BaseFields \cup DOMAIN asp_tokens.some
         /\ \A f \in DOMAIN asp_tokens.some : lastPost.some[f] = <<asp_tokens.some[f]>>

\* a POST of a later invocation than the one that captured a non-empty mapping
C3_Witness ==
    /\ lastPost # None /\ captures = 1
    /\ DOMAIN asp_tokens.some # {}
    /\ pc = "parse" /\ getLog[Len(getLog)].invocation < Len(attempted)

\* C4 as claimed: only the first invocation issues the landing-page GET.
C4_Original == \A k \in 1..Len(getLog) : getLog[k].invocation = 1

\* C4, amended: the GET is issued by exactly the invocations that start while
\* no mapping has been captured; the invocations 1, 2, ... issue it until one
\* GET succeeds, and no invocation after a successful GET issues it.
C4_Amended ==
    /\ \A k \in 1..Len(getLog) : getLog[k].invocation = k
    /\ \A k \in 1..(Len(getLog) - 1) : ~getLog[k].ok
    /\ asp_tokens # None <=> (getLog # <<>> /\ getLog[Len(getLog)].ok)
    /\ (asp_tokens = None /\ pc \in {"loop", "done", "except"}) => Len(getLog) = Len(attempted)

\* the first GET raised, the second invocation issued it again and succeeded,
\* and a later invocation went straight to the POST
C4_Witness ==
    /\ Len(getLog) = 2 /\ ~getLog[1].ok /\ getLog[2].ok
    /\ Len(attempted) > 2 /\ pc = "post"

\* C5 as claimed: when a day's step is over, exactly one delay was performed
\* since that day's attempt, whether the step succeeded or failed.
C5_Claim == (pc = "loop" /\ i > 0) => delays = 1

\* C6: the final list has no two events with equal start time and
\* case-insensitively equal title, it has every uid of all_events, each of its
\* events is the last one of all_events with that uid, and two events of
\* all_events have the same uid exactly when start time and lowercased title agree.
C6_Theorem ==
    (pc = "done" /\ final # None) =>
        LET f == final.some
        IN  /\ \A a, b \in 1..Len(f) :
                 (f[a].dt_start = f[b].dt_start /\ Lower(f[a].title) = Lower(f[b].title))
                    => a = b
            /\ {uid(f[a]) : a \in 1..Len(f)} = {uid(all_events[k]) : k \in 1..Len(all_events)}
            /\ \A a \in 1..Len(f) :
                 \E k \in 1..Len(all_events) :
                    /\ f[a] = all_events[k]
                    /\ \A l \in (k + 1)..Len(all_events) : uid(all_events[l]) # uid(f[a])
            /\ \A j, k \in 1..Len(all_events) :
                 (uid(all_events[j]) = uid(all_events[k])) <=>
                    (/\ all_events[j].dt_start = all_events[k].dt_start
                     /\ Lower(all_events[j].title) = Lower(all_events[k].title))

\* a finished run whose all_events held the same meeting twice, with different
\* title casing and location, next to another meeting
C6_Witness ==
    /\ pc = "done" /\ final # None
    /\ Len(final.some) >= 2
    /\ \E j, k \in 1..Len(all_events) :
         /\ j < k
         /\ all_events[j].title # all_events[k].title
         /\ all_events[j].location # all_events[k].location
         /\ uid(all_events[j]) = uid(all_events[k])

\* C7: deduplicating the deduplicated list changes nothing: same uids, same
\* retained event for each uid (also for the sorted list main keeps).
C7_Theorem ==
    LET d == dedup_by_uid(all_events)
        dd == dedup_by_uid(d)
    IN  /\ {uid(e) : e \in Range(dd)} = {uid(e) : e \in Range(d)}
        /\ Range(dd) = Range(d)
        /\ Len(dd) = Len(d)
        /\ final # None => Range(dedup_by_uid(final.some)) = Range(final.some)

\* an accumulated list with a meeting three times and another meeting
C7_Witness ==
    /\ pc = "done" /\ Len(all_events) > Len(dedup_by_uid(all_events))
    /\ \E j, k, l \in 1..Len(all_events) :
         j < k /\ k < l /\ uid(all_events[j]) = uid(all_events[k])
            /\ uid(all_events[k]) = uid(all_events[l])

\* the lines of a text: the pieces in front of each terminator
TerminatorsAt(text) == {k \in 1..Len(text) : text[k] = CRLF}
SplitLines(text) ==
    LET ends == TerminatorsAt(text)
        nth(n) == CHOOSE k \in ends : Cardinality({j \in ends : j <= k}) = n
    IN  [n \in 1..Cardinality(ends) |->
            SubSeq(text, (IF n = 1 THEN 0 ELSE nth(n - 1)) + 1, nth(n) - 1)]

LinesWith(lines, first) == SelectSeq(lines, LAMBDA l : l # <<>> /\ l[1] = first)

\* C10: the list handed to build_ics is sorted by start time ascending, and the
\* text written has the four header lines, one BEGIN:VEVENT ... END:VEVENT block
\* of seven lines per event in the order of the list, the footer line, and
\* carriage-return+line-feed after every line including the last.
C10_Theorem ==
    (pc = "done" /\ final # None) =>
        LET f == final.some
            text == output_file.some
            lines == SplitLines(text)
        IN  /\ \A a \in 1..(Len(f) - 1) : ~dt_less(f[a + 1].dt_start, f[a].dt_start)
            /\ text[Len(text)] = CRLF
            /\ Len(lines) = 4 + 7 * Len(f) + 1
            /\ lines[1] = <<"BEGIN:VCALENDAR">>
            /\ lines[Len(lines)] = <<"END:VCALENDAR">>
            /\ Len(LinesWith(lines, "BEGIN:VCALENDAR")) = 1
            /\ Len(LinesWith(lines, "END:VCALENDAR")) = 1
            /\ Len(LinesWith(lines, "BEGIN:VEVENT")) = Len(f)
            /\ Len(LinesWith(lines, "END:VEVENT")) = Len(f)
            /\ \A a \in 1..Len(f) :
                 /\ lines[4 + 7 * (a - 1) + 1] = <<"BEGIN:VEVENT">>
                 /\ lines[4 + 7 * (a - 1) + 2] = <<"UID:">> \o uid(f[a])
                 /\ lines[4 + 7 * (a - 1) + 7] = <<"END:VEVENT">>

\* a written file of several events whose order in all_events was not the
\* order of their start times
C10_Witness ==
    /\ pc = "done" /\ final # None /\ writes = 1
    /\ Len(final.some) >= 2
    /\ final.some # dedup_by_uid(all_events)

(***************************************************************************)
(* parse_dt_line on its own: the inputs are texts put together from the    *)
(* pools below, so that well-formed, malformed and out-of-range fragments  *)
(* all occur.                                                              *)
(***************************************************************************)
MonPool == {<<"1">>, <<"1", "2">>, <<"1", "3">>, <<"0", "2">>}
DayPool == {<<"5">>, <<"2", "9">>, <<"3", "2">>, <<"4", "5">>}
YearPool == {<<"2", "0", "2", "4">>, <<"2", "0", "2", "5">>, <<"0", "0", "0", "0">>}
MkDate(shape, mo, d, y) ==
    CASE shape = "plain" -> mo \o <<"/">> \o d \o <<"/">> \o y
      [] shape = "dash" -> mo \o <<"-">> \o d \o <<"-">> \o y
      [] shape = "lead" -> <<"1">> \o mo \o <<"/">> \o d \o <<"/">> \o y
      [] shape = "padded" -> <<" ", "\t">> \o mo \o <<"/">> \o d \o <<"/">> \o y \o <<"\n">>
PlainDates == {MkDate("plain", mo, d, y) : mo \in MonPool, d \in DayPool, y \in YearPool}
DashDates == {MkDate("dash", mo, d, <<"2", "0", "2", "5">>) : mo \in MonPool, d \in DayPool}
OddDates == {MkDate(sh, mo, <<"5">>, <<"2", "0", "2", "5">>) : sh \in {"lead", "padded"}, mo \in MonPool}
DatePool == PlainDates \cup DashDates \cup OddDates

HourPool == {<<"0">>, <<"1">>, <<"1", "1">>, <<"1", "2">>, <<"1", "3">>, <<"2", "5">>}
MinPool == {<<"0", "0">>, <<"1", "5">>, <<"3", "0">>, <<"5", "9">>, <<"6", "0">>}
SecPool == {<<>>, <<":", "4", "5">>}
GapPool == {<<>>, <<" ">>, <<" ", "\t">>}
AmPmPool == {<<"A", "M">>, <<"P", "M">>, <<"p", "m">>, <<"X", "M">>}
MkTime(h, mi, sec, gap, ap) == h \o <<":">> \o mi \o sec \o gap \o ap
TimePool == {MkTime(h, mi, sec, gap, ap) :
                h \in HourPool, mi \in MinPool, sec \in SecPool, gap \in GapPool, ap \in AmPmPool}

InitParse ==
    /\ IdleMain /\ IdleEV
    /\ date_str \in DatePool /\ time_str \in TimePool
    /\ dt_result = None /\ dt_raised = FALSE /\ dt_pc = "call"

\* one call parse_dt_line(date_str, time_str)
CallParseDtLine ==
    /\ dt_pc = "call"
    /\ LET r == parse_dt_line(date_str, time_str)
       IN  dt_result' = r.value /\ dt_raised' = r.raised
    /\ dt_pc' = "returned"
    /\ UNCHANGED <<date_str, time_str>>
    /\ UNCHANGED mainVars /\ UNCHANGED evVars

NextParse == CallParseDtLine
SpecParse == InitParse /\ [][NextParse]_vars

\* the 24-hour value of a 12-hour clock reading
Hour24(h12, pm) == IF pm THEN (IF h12 = 12 THEN 12 ELSE h12 + 12)
                   ELSE (IF h12 = 12 THEN 0 ELSE h12)

Ex_date == <<"1", "/", "5", "/", "2", "0", "2", "5">>
Ex_bad_date == <<"1", "3", "/", "4", "5", "/", "2", "0", "2", "4">>
ExTimes(h, mi, ap) == {MkTime(h, mi, <<>>, gap, ap) : gap \in GapPool}

\* C8: parse_dt_line never raises; it returns None when the collapsed text has
\* no match of the pattern or the matched numbers are no valid date and time
\* (day 32, month 13, a converted hour above 23); otherwise the returned hour is
\* in 0..23 and is 12 for 12 PM, h+12 for another PM hour, 0 for 12 AM and h
\* otherwise (12:00 AM -> 0, 12:30 PM -> 12, 1:15 PM -> 13, 11:59 PM -> 23).
C8_Theorem ==
    dt_pc = "returned" =>
        LET clean == normalize_ws(date_str \o <<" ">> \o time_str)
            m == pattern_search(clean)
        IN  /\ ~dt_raised
            /\ m = None => dt_result = None
            /\ m # None =>
                 LET h24 == Hour24(ToInt(group(m, G_h)), Upper(group(m, G_ampm)) = <<"P", "M">>)
                     y == ToInt(group(m, G_year))
                     mo == ToInt(group(m, G_mon))
                     d == ToInt(group(m, G_day))
                     mi == ToInt(group(m, G_m))
                     valid == /\ y \in 1..9999 /\ mo \in 1..12 /\ d >= 1
                              /\ d <= (IF mo = 2 THEN (IF IsLeap(y) THEN 29 ELSE 28)
                                       ELSE IF mo \in {4, 6, 9, 11} THEN 30 ELSE 31)
                              /\ h24 <= 23 /\ mi <= 59
                 IN  /\ ~valid => dt_result = None
                     /\ valid => /\ dt_result # None
                                 /\ dt_result.hour = h24 /\ dt_result.hour \in 0..23
                                 /\ dt_result.year = y /\ dt_result.month = mo
                                 /\ dt_result.day = d /\ dt_result.minute = mi
            /\ date_str \in DashDates => dt_result = None
            /\ (\E k \in 1..Len(time_str) : time_str[k] = "X") => dt_result = None
            /\ (date_str = Ex_bad_date /\ time_str \in ExTimes(<<"2", "5">>, <<"0", "0">>, <<"A", "M">>))
                    => dt_result = None
            /\ (date_str = Ex_date /\ time_str \in ExTimes(<<"1", "2">>, <<"0", "0">>, <<"A", "M">>))
                    => (dt_result # None /\ dt_result.hour = 0 /\ dt_result.minute = 0)
            /\ (date_str = Ex_date /\ time_str \in ExTimes(<<"1", "2">>, <<"3", "0">>, <<"P", "M">>))
                    => (dt_result # None /\ dt_result.hour = 12)
            /\ (date_str = Ex_date /\ time_str \in ExTimes(<<"1">>, <<"1", "5">>, <<"P", "M">>))
                    => (dt_result # None /\ dt_result.hour = 13)
            /\ (date_str = Ex_date /\ time_str \in ExTimes(<<"1", "1">>, <<"5", "9">>, <<"P", "M">>))
                    => (dt_result # None /\ dt_result.hour = 23 /\ dt_result.minute = 59)

\* a call that matched with numbers that are no date, answered with None, not
\* with the ValueError of the datetime constructor
C8_Witness ==
    /\ dt_pc = "returned" /\ ~dt_raised /\ dt_result = None
    /\ date_str = Ex_bad_date
    /\ pattern_search(normalize_ws(date_str \o <<" ">> \o time_str)) # None

(***************************************************************************)
(* parse_events_from_html on its own: documents of one row with every      *)
(* combination of cells, and documents of several rows.                    *)
(***************************************************************************)
T_filler_ws == <<" ", "c", "g", "a", " ", " ", "e", "v", "e", "n", "t">>
T_bad_date == <<"1", "3", "/", "4", "5", "/", "2", "0", "2", "4">>

\* cells 0 and 1: a date and time, the same with padding, a header, no date
RowDtPool == {<<T_date1, T_time10>>, <<T_date1_padded, T_time930>>,
              <<T_hdr_date, T_hdr_time>>, <<T_bad_date, T_time10>>}
CellPool == {T_empty, T_num, T_hb, T_filler, T_filler_ws, T_budget, T_hearing, T_room}

\* at most MaxExtraCells cells after the first two; at most MaxRows rows
MaxExtraCells == 3
MaxRows == 2

RECURSIVE SeqsUpTo(_, _)
SeqsUpTo(S, n) ==
    IF n = 0 THEN {<<>>}
    ELSE LET shorter == SeqsUpTo(S, n - 1)
         IN  shorter \cup {Append(q, x) : q \in shorter, x \in S}

AllRows == {dt \o extra : dt \in RowDtPool, extra \in SeqsUpTo(CellPool, MaxExtraCells)}
            \cup {<<>>, <<T_date1>>}
PickedRows == {<<T_hdr_date, T_hdr_time, T_hdr_event, T_hdr_room>>,
               <<T_date1, T_time10, T_num, T_budget, T_room>>,
               <<T_date1, T_time930, T_hearing>>,
               <<T_date0, T_time2359, T_hb, T_hearing, T_room>>,
               <<T_date1, T_time930, T_num, T_num>>,
               <<T_bad_date, T_time10, T_num, T_budget>>}
DocPool == {<<r>> : r \in AllRows} \cup SeqsUpTo(PickedRows, MaxRows)

InitRows ==
    /\ IdleMain /\ IdleDT
    /\ html_content \in DocPool /\ events = <<>> /\ ev_pc = "call"

\* one call parse_events_from_html(html_content)
CallParseEvents ==
    /\ ev_pc = "call"
    /\ events' = parse_events_from_html(html_content)
    /\ ev_pc' = "returned"
    /\ UNCHANGED html_content
    /\ UNCHANGED mainVars /\ UNCHANGED dtVars

NextRows == CallParseEvents
SpecRows == InitRows /\ [][NextRows]_vars

\* the texts of cells 2 onward that may be a title, in column order
Candidates(row) ==
    SelectSeq([k \in 1..(Len(row) - 2) |-> normalize_ws(row[k + 2])],
              LAMBDA t : t # <<>> /\ ~IsDigitStr(t) /\ Lower(t) # CGA_EVENT)

\* a row yields an event: at least 4 cells, and cells 0 and 1 parse
Qualifies(row) == Len(row) >= 4 /\ parse_dt_line(Strip(row[1]), Strip(row[2])).value # None

ExpectedTitle(c) ==
    IF c = <<>> THEN PLACEHOLDER
    ELSE IF Len(c[1]) < 3 /\ Len(c) > 1 THEN c[2] ELSE c[1]
ExpectedLocation(c) ==
    IF Len(c) <= 1 THEN <<>>
    ELSE IF Len(c[1]) < 3 THEN (IF Len(c) > 2 THEN c[3] ELSE <<>>)
    ELSE c[2]

====
